---------------------------- MODULE Spec2Model ----------------------------
(***************************************************************************)
(* Model of the two auto-traders of this repository:                       *)
(*   src/autotrader1.py            the single-pair strategy ("single")     *)
(*   src/autotrader_delayhedge.py  the ladder strategy      ("ladder")     *)
(* Each callback of the AutoTrader class is an operator from the engine    *)
(* state (a record of the object's fields) and the callback's arguments to *)
(* the state the callback leaves, the gateway calls it made, in order, and *)
(* whether it ended by raising.  An action delivers one event: it applies  *)
(* the callback and hands its gateway calls to the venue.                  *)
(***************************************************************************)
EXTENDS Integers, Sequences, FiniteSets, TLC

(***************************************************************************)
(* Program constants.                                                      *)
(***************************************************************************)
POSITION_LIMIT == 90
TICK_SIZE_IN_CENTS == 100
\* LOT_SIZE of autotrader1.py and of autotrader_delayhedge.py
LOT_SIZE_1 == 5
LOT_SIZE_DH == 15
NLADDER == 3
\* the divisor of the inventory skew, position // 40
SKEW_DIVISOR == 40
\* ready_trader_go.MINIMUM_BID and MAXIMUM_ASK (imported, 2**31 - 1)
MINIMUM_BID == 1
MAXIMUM_ASK == 2147483647
MIN_BID_NEAREST_TICK ==
    ((MINIMUM_BID + TICK_SIZE_IN_CENTS) \div TICK_SIZE_IN_CENTS) * TICK_SIZE_IN_CENTS
MAX_ASK_NEAREST_TICK ==
    (MAXIMUM_ASK \div TICK_SIZE_IN_CENTS) * TICK_SIZE_IN_CENTS

\* Instrument.FUTURE, Instrument.ETF
FUTURE == "FUTURE"
ETF == "ETF"
\* Side.SELL (alias Side.ASK) and Side.BUY (alias Side.BID)
SELL == "SELL"
BUY == "BUY"
\* Lifespan
GOOD_FOR_DAY == "GOOD_FOR_DAY"
FILL_AND_KILL == "FILL_AND_KILL"

(***************************************************************************)
(* Bounds of the model.                                                    *)
(***************************************************************************)
\* most order ids the single-pair run hands out
MaxIdSingle == 5
\* most order ids the ladder run hands out
MaxIdLadder == 8
\* most book updates between two trade ticks (caps hedge_timer)
MaxTimer == 1
\* most fills the venue reports in a run
MaxFillsSingle == 2
MaxFillsLadder == 1
\* most arbitrage (FILL_AND_KILL) orders of a run
MaxArbSingle == 2
MaxArbLadder == 1

\* The market data delivered.  A touch is
\* <<bid_prices[0], bid_volumes[0], ask_prices[0], ask_volumes[0]>>: the
\* callbacks read no other element of the arrays.  There is a low and a high
\* touch, an empty one and one with no bid; the volume at the touch is
\* small on one side and beyond the position limit on the other.
LowTouch == <<10000, 3, 10100, 200>>
HighTouch == <<10300, 200, 10400, 3>>
NoTouch == <<0, 0, 0, 0>>
AskOnlyTouch == <<0, 0, 10100, 200>>

\* order book updates, as <<instrument, sequence_number, touch>>; the first
\* one is also delivered late, after events with a higher sequence number
BookEvents ==
    { <<"FUTURE", 0, LowTouch>>, <<"FUTURE", 1, HighTouch>>,
      <<"ETF", 1, LowTouch>>, <<"ETF", 1, HighTouch>>, <<"ETF", 1, NoTouch>> }

\* trade ticks, as <<instrument, sequence_number, touch>>
TickEvents ==
    { <<"FUTURE", 1, NoTouch>>, <<"FUTURE", 1, AskOnlyTouch>>,
      <<"ETF", 1, LowTouch>> }

\* A second market for the single-pair strategy: the reference touch is wide
\* around the same mid-price as LowTouch, and the volume at the tradable bid
\* is one short of the position limit.
WideTouch == <<9900, 200, 10200, 200>>
DeepTouch == <<10000, 89, 10100, 3>>
WideBookEvents ==
    { <<"FUTURE", 1, HighTouch>>, <<"FUTURE", 1, WideTouch>>,
      <<"ETF", 1, DeepTouch>> }
WideTickEvents == { <<"FUTURE", 1, NoTouch>> }

\* A third market, for the ladder strategy: both instruments trade at the
\* lowest valid prices, MIN_BID_NEAREST_TICK and one tick above.
FloorTouch == <<100, 3, 200, 3>>
AboveFloorTouch == <<400, 3, 500, 3>>
FloorBookEvents ==
    { <<"FUTURE", 1, FloorTouch>>, <<"ETF", 1, FloorTouch>>,
      <<"ETF", 1, AboveFloorTouch>> }
FloorTickEvents == { <<"FUTURE", 1, NoTouch>>, <<"ETF", 1, FloorTouch>> }

VARIABLES
    strategy,        \* "single" (autotrader1) or "ladder" (autotrader_delayhedge)
    market,          \* the market data of the run: "mid", "wide" or "floor"
    order_ids,       \* the next value of itertools.count(1)
    bids, asks,      \* single: sets of ids; ladder: dicts id -> price
    bid_id, bid_price, ask_id, ask_price,   \* single only
    position,
    position_future, \* ladder only
    curr_best_bid, curr_best_ask,           \* dicts instrument -> price
    curr_sequence,
    bid_prices, ask_prices,                 \* ladder only: dicts price -> id
    hedge_timer,     \* ladder only
    failed,          \* a callback has ended by raising
    sent,            \* insert and hedge calls made, in call order
    venue,           \* per entry of sent: remaining volume, still live
    cancel_req,      \* cancel requests in flight: ids, oldest first
    fills            \* fills the venue has reported

vars == <<strategy, market, order_ids, bids, asks, bid_id, bid_price, ask_id, ask_price,
          position, position_future, curr_best_bid, curr_best_ask, curr_sequence,
          bid_prices, ask_prices, hedge_timer, failed, sent, venue, cancel_req,
          fills>>

(***************************************************************************)
(* Helpers: Python's min/max/abs, dicts as functions, call records.        *)
(***************************************************************************)
Min(a, b) == IF a <= b THEN a ELSE b
Max(a, b) == IF a >= b THEN a ELSE b
Abs(a) == IF a < 0 THEN -a ELSE a

EmptyDict == [k \in {} |-> 0]
HasKey(d, k) == k \in DOMAIN d
\* d[k] = v
Put(d, k, v) == [x \in DOMAIN d \cup {k} |-> IF x = k THEN v ELSE d[x]]
\* d.pop(k, default), the dict it leaves
Pop(d, k) == [x \in DOMAIN d \ {k} |-> d[x]]
\* d.pop(k, default), the value it returns
PopValue(d, k, default) == IF HasKey(d, k) THEN d[k] ELSE default

InsertCall(id, side, price, volume, lifespan) ==
    [op |-> "insert", id |-> id, side |-> side, price |-> price,
     volume |-> volume, lifespan |-> lifespan]
CancelCall(id) ==
    [op |-> "cancel", id |-> id, side |-> "-", price |-> 0,
     volume |-> 0, lifespan |-> "-"]
HedgeCall(id, side, price, volume) ==
    [op |-> "hedge", id |-> id, side |-> side, price |-> price,
     volume |-> volume, lifespan |-> "-"]

\* how a callback ends: normally, or by raising (KeyError) after the calls made
Return(s, calls) == [s |-> s, calls |-> calls, raised |-> FALSE]
Raise(s, calls) == [s |-> s, calls |-> calls, raised |-> TRUE]

\* the engine's fields as one record
Eng ==
    [order_ids |-> order_ids, bids |-> bids, asks |-> asks,
     bid_id |-> bid_id, bid_price |-> bid_price,
     ask_id |-> ask_id, ask_price |-> ask_price,
     position |-> position, position_future |-> position_future,
     curr_best_bid |-> curr_best_bid, curr_best_ask |-> curr_best_ask,
     curr_sequence |-> curr_sequence,
     bid_prices |-> bid_prices, ask_prices |-> ask_prices,
     hedge_timer |-> hedge_timer]

(***************************************************************************)
(* update_best_record, the same in both files.                             *)
(***************************************************************************)
update_best_record(s, instrument, sequence, new_best_ask, new_best_bid) ==
    LET s1 == [s EXCEPT !.curr_sequence = Max(sequence, s.curr_sequence)]
        s2 == IF new_best_ask # 0
              THEN [s1 EXCEPT !.curr_best_ask = Put(@, instrument, new_best_ask)]
              ELSE s1
    IN  IF new_best_bid # 0
        THEN [s2 EXCEPT !.curr_best_bid = Put(@, instrument, new_best_bid)]
        ELSE s2

(***************************************************************************)
(* autotrader1.py: the single-pair strategy.                               *)
(***************************************************************************)

\* faulty variant: the arbitrage sell is sized by the volume at the best ask
AT1_targets_AskVolume(s, bp, bv, ap, av) ==
    IF (bp # 0) /\ (ap # 0)
    THEN IF ~HasKey(s.curr_best_ask, FUTURE)
         THEN [raised |-> TRUE, s |-> s, calls |-> <<>>,
               new_bid_price |-> 0, new_ask_price |-> 0]
         ELSE IF ((bp - TICK_SIZE_IN_CENTS) > s.curr_best_ask[FUTURE])
                 /\ (s.position > -POSITION_LIMIT)
         THEN \* ETF too high
              LET this_id == s.order_ids
                  order_size == Min(av, s.position + POSITION_LIMIT)
              IN  [raised |-> FALSE,
                   s |-> [s EXCEPT !.order_ids = @ + 1,
                                   !.asks = @ \cup {this_id}],
                   calls |-> <<InsertCall(this_id, SELL, bp, order_size,
                                          FILL_AND_KILL)>>,
                   new_bid_price |-> s.curr_best_ask[FUTURE],
                   new_ask_price |-> 0]
         ELSE IF ~HasKey(s.curr_best_bid, FUTURE)
         THEN [raised |-> TRUE, s |-> s, calls |-> <<>>,
               new_bid_price |-> 0, new_ask_price |-> 0]
         ELSE IF ((ap + TICK_SIZE_IN_CENTS) < s.curr_best_bid[FUTURE])
                 /\ (s.position < POSITION_LIMIT)
         THEN \* ETF too low
              LET this_id == s.order_ids
                  order_size == Min(bv, -s.position + POSITION_LIMIT)
              IN  [raised |-> FALSE,
                   s |-> [s EXCEPT !.order_ids = @ + 1,
                                   !.bids = @ \cup {this_id}],
                   calls |-> <<InsertCall(this_id, BUY, ap, order_size,
                                          FILL_AND_KILL)>>,
                   new_bid_price |-> 0,
                   new_ask_price |-> s.curr_best_bid[FUTURE]]
         ELSE \* mid_price_future is a half-integer: distances are compared doubled
              LET mid2 == s.curr_best_ask[FUTURE] + s.curr_best_bid[FUTURE]
                  etf_bid_to_mid2 == Abs(mid2 - 2 * bp)
                  etf_ask_to_mid2 == Abs(mid2 - 2 * ap)
              IN  IF etf_bid_to_mid2 > etf_ask_to_mid2
                  THEN \* ETF slightly high
                       [raised |-> FALSE, s |-> s, calls |-> <<>>,
                        new_bid_price |-> bp,
                        new_ask_price |-> Max(bp + TICK_SIZE_IN_CENTS,
                                              s.curr_best_ask[FUTURE])]
                  ELSE \* ETF slightly low
                       [raised |-> FALSE, s |-> s, calls |-> <<>>,
                        new_bid_price |-> Min(ap - TICK_SIZE_IN_CENTS,
                                              s.curr_best_bid[FUTURE]),
                        new_ask_price |-> ap]
    ELSE [raised |-> FALSE, s |-> s, calls |-> <<>>,
          new_bid_price |-> 0, new_ask_price |-> 0]

\* faulty variant: a tie of the two distances counts as ETF slightly high
AT1_targets_TieHigh(s, bp, bv, ap, av) ==
    IF (bp # 0) /\ (ap # 0)
    THEN IF ~HasKey(s.curr_best_ask, FUTURE)
         THEN [raised |-> TRUE, s |-> s, calls |-> <<>>,
               new_bid_price |-> 0, new_ask_price |-> 0]
         ELSE IF ((bp - TICK_SIZE_IN_CENTS) > s.curr_best_ask[FUTURE])
                 /\ (s.position > -POSITION_LIMIT)
         THEN \* ETF too high
              LET this_id == s.order_ids
                  order_size == Min(bv, s.position + POSITION_LIMIT)
              IN  [raised |-> FALSE,
                   s |-> [s EXCEPT !.order_ids = @ + 1,
                                   !.asks = @ \cup {this_id}],
                   calls |-> <<InsertCall(this_id, SELL, bp, order_size,
                                          FILL_AND_KILL)>>,
                   new_bid_price |-> s.curr_best_ask[FUTURE],
                   new_ask_price |-> 0]
         ELSE IF ~HasKey(s.curr_best_bid, FUTURE)
         THEN [raised |-> TRUE, s |-> s, calls |-> <<>>,
               new_bid_price |-> 0, new_ask_price |-> 0]
         ELSE IF ((ap + TICK_SIZE_IN_CENTS) < s.curr_best_bid[FUTURE])
                 /\ (s.position < POSITION_LIMIT)
         THEN \* ETF too low
              LET this_id == s.order_ids
                  order_size == Min(bv, -s.position + POSITION_LIMIT)
              IN  [raised |-> FALSE,
                   s |-> [s EXCEPT !.order_ids = @ + 1,
                                   !.bids = @ \cup {this_id}],
                   calls |-> <<InsertCall(this_id, BUY, ap, order_size,
                                          FILL_AND_KILL)>>,
                   new_bid_price |-> 0,
                   new_ask_price |-> s.curr_best_bid[FUTURE]]
         ELSE \* mid_price_future is a half-integer: distances are compared doubled
              LET mid2 == s.curr_best_ask[FUTURE] + s.curr_best_bid[FUTURE]
                  etf_bid_to_mid2 == Abs(mid2 - 2 * bp)
                  etf_ask_to_mid2 == Abs(mid2 - 2 * ap)
              IN  IF etf_bid_to_mid2 >= etf_ask_to_mid2
                  THEN \* ETF slightly high
                       [raised |-> FALSE, s |-> s, calls |-> <<>>,
                        new_bid_price |-> bp,
                        new_ask_price |-> Max(bp + TICK_SIZE_IN_CENTS,
                                              s.curr_best_ask[FUTURE])]
                  ELSE \* ETF slightly low
                       [raised |-> FALSE, s |-> s, calls |-> <<>>,
                        new_bid_price |-> Min(ap - TICK_SIZE_IN_CENTS,
                                              s.curr_best_bid[FUTURE]),
                        new_ask_price |-> ap]
    ELSE [raised |-> FALSE, s |-> s, calls |-> <<>>,
          new_bid_price |-> 0, new_ask_price |-> 0]

\* on_order_book_update_message, lines 89-132: the arbitrage order and the
\* target prices.  `&` evaluates both operands, so curr_best_ask[FUTURE] is
\* read whenever both touches are nonzero and curr_best_bid[FUTURE] whenever
\* the first test fails; a missing key raises KeyError before anything is set.
\* Gives [raised, s, calls, new_bid_price, new_ask_price].
AT1_targets(s, bp, bv, ap, av) ==
    IF (bp # 0) /\ (ap # 0)
    THEN IF ~HasKey(s.curr_best_ask, FUTURE)
         THEN [raised |-> TRUE, s |-> s, calls |-> <<>>,
               new_bid_price |-> 0, new_ask_price |-> 0]
         ELSE IF ((bp - TICK_SIZE_IN_CENTS) > s.curr_best_ask[FUTURE])
                 /\ (s.position > -POSITION_LIMIT)
         THEN \* ETF too high
              LET this_id == s.order_ids
                  order_size == Min(bv, s.position + POSITION_LIMIT)
              IN  [raised |-> FALSE,
                   s |-> [s EXCEPT !.order_ids = @ + 1,
                                   !.asks = @ \cup {this_id}],
                   calls |-> <<InsertCall(this_id, SELL, bp, order_size,
                                          FILL_AND_KILL)>>,
                   new_bid_price |-> s.curr_best_ask[FUTURE],
                   new_ask_price |-> 0]
         ELSE IF ~HasKey(s.curr_best_bid, FUTURE)
         THEN [raised |-> TRUE, s |-> s, calls |-> <<>>,
               new_bid_price |-> 0, new_ask_price |-> 0]
         ELSE IF ((ap + TICK_SIZE_IN_CENTS) < s.curr_best_bid[FUTURE])
                 /\ (s.position < POSITION_LIMIT)
         THEN \* ETF too low
              LET this_id == s.order_ids
                  order_size == Min(bv, -s.position + POSITION_LIMIT)
              IN  [raised |-> FALSE,
                   s |-> [s EXCEPT !.order_ids = @ + 1,
                                   !.bids = @ \cup {this_id}],
                   calls |-> <<InsertCall(this_id, BUY, ap, order_size,
                                          FILL_AND_KILL)>>,
                   new_bid_price |-> 0,
                   new_ask_price |-> s.curr_best_bid[FUTURE]]
         ELSE \* mid_price_future is a half-integer: distances are compared doubled
              LET mid2 == s.curr_best_ask[FUTURE] + s.curr_best_bid[FUTURE]
                  etf_bid_to_mid2 == Abs(mid2 - 2 * bp)
                  etf_ask_to_mid2 == Abs(mid2 - 2 * ap)
              IN  IF etf_bid_to_mid2 > etf_ask_to_mid2
                  THEN \* ETF slightly high
                       [raised |-> FALSE, s |-> s, calls |-> <<>>,
                        new_bid_price |-> bp,
                        new_ask_price |-> Max(bp + TICK_SIZE_IN_CENTS,
                                              s.curr_best_ask[FUTURE])]
                  ELSE \* ETF slightly low
                       [raised |-> FALSE, s |-> s, calls |-> <<>>,
                        new_bid_price |-> Min(ap - TICK_SIZE_IN_CENTS,
                                              s.curr_best_bid[FUTURE]),
                        new_ask_price |-> ap]
    ELSE [raised |-> FALSE, s |-> s, calls |-> <<>>,
          new_bid_price |-> 0, new_ask_price |-> 0]

\* faulty variant: the cancelled bid is dropped from bids at once
AT1_cancel_bid_Forgets(r, new_bid_price) ==
    IF r.s.bid_id # 0 /\ new_bid_price \notin {r.s.bid_price, 0}
    THEN Return([r.s EXCEPT !.bid_id = 0, !.bids = @ \ {r.s.bid_id}],
                Append(r.calls, CancelCall(r.s.bid_id)))
    ELSE r

\* lines 135-138: cancel the bid whose price is no longer the target
AT1_cancel_bid(r, new_bid_price) ==
    IF r.s.bid_id # 0 /\ new_bid_price \notin {r.s.bid_price, 0}
    THEN Return([r.s EXCEPT !.bid_id = 0],
                Append(r.calls, CancelCall(r.s.bid_id)))
    ELSE r

\* lines 140-143
AT1_cancel_ask(r, new_ask_price) ==
    IF r.s.ask_id # 0 /\ new_ask_price \notin {r.s.ask_price, 0}
    THEN Return([r.s EXCEPT !.ask_id = 0],
                Append(r.calls, CancelCall(r.s.ask_id)))
    ELSE r

\* faulty variant: the bid is always for a whole lot
AT1_insert_bid_FullLot(r, new_bid_price) ==
    IF r.s.bid_id = 0 /\ new_bid_price # 0 /\ r.s.position < POSITION_LIMIT
    THEN LET id == r.s.order_ids
             order_size == LOT_SIZE_1
         IN  Return([r.s EXCEPT !.order_ids = @ + 1,
                                !.bid_id = id,
                                !.bid_price = new_bid_price,
                                !.bids = @ \cup {id}],
                    Append(r.calls, InsertCall(id, BUY, new_bid_price,
                                               order_size, GOOD_FOR_DAY)))
    ELSE r

\* lines 145-152: a new bid when the side is free
AT1_insert_bid(r, new_bid_price) ==
    IF r.s.bid_id = 0 /\ new_bid_price # 0 /\ r.s.position < POSITION_LIMIT
    THEN LET id == r.s.order_ids
             order_size == Min(LOT_SIZE_1, POSITION_LIMIT - r.s.position)
         IN  Return([r.s EXCEPT !.order_ids = @ + 1,
                                !.bid_id = id,
                                !.bid_price = new_bid_price,
                                !.bids = @ \cup {id}],
                    Append(r.calls, InsertCall(id, BUY, new_bid_price,
                                               order_size, GOOD_FOR_DAY)))
    ELSE r

\* lines 154-161
AT1_insert_ask(r, new_ask_price) ==
    IF r.s.ask_id = 0 /\ new_ask_price # 0 /\ r.s.position > -POSITION_LIMIT
    THEN LET id == r.s.order_ids
             order_size == Min(LOT_SIZE_1, r.s.position + POSITION_LIMIT)
         IN  Return([r.s EXCEPT !.order_ids = @ + 1,
                                !.ask_id = id,
                                !.ask_price = new_ask_price,
                                !.asks = @ \cup {id}],
                    Append(r.calls, InsertCall(id, SELL, new_ask_price,
                                               order_size, GOOD_FOR_DAY)))
    ELSE r

AT1_on_order_book_update_message(s, instrument, sequence_number, bp, bv, ap, av) ==
    IF instrument = ETF
    THEN LET t == AT1_targets(s, bp, bv, ap, av)
         IN  IF t.raised
             THEN Raise(t.s, t.calls)
             ELSE LET r1 == AT1_cancel_bid(Return(t.s, t.calls), t.new_bid_price)
                      r2 == AT1_cancel_ask(r1, t.new_ask_price)
                      r3 == AT1_insert_bid(r2, t.new_bid_price)
                      r4 == AT1_insert_ask(r3, t.new_ask_price)
                  IN  Return(update_best_record(r4.s, instrument,
                                                sequence_number, ap, bp),
                             r4.calls)
    ELSE Return(update_best_record(s, instrument, sequence_number, ap, bp), <<>>)

\* faulty variant: the hedge is for one lot whatever volume was filled
AT1_on_order_filled_message_LotHedge(s, client_order_id, price, volume) ==
    IF client_order_id \in s.bids
    THEN Return([s EXCEPT !.position = @ + volume, !.order_ids = @ + 1],
                <<HedgeCall(s.order_ids, SELL, MIN_BID_NEAREST_TICK, LOT_SIZE_1)>>)
    ELSE IF client_order_id \in s.asks
    THEN Return([s EXCEPT !.position = @ - volume, !.order_ids = @ + 1],
                <<HedgeCall(s.order_ids, BUY, MAX_ASK_NEAREST_TICK, LOT_SIZE_1)>>)
    ELSE Return(s, <<>>)

\* faulty variant: the hedge takes the id of the filled order, no new one
AT1_on_order_filled_message_ReusedId(s, client_order_id, price, volume) ==
    IF client_order_id \in s.bids
    THEN Return([s EXCEPT !.position = @ + volume],
                <<HedgeCall(client_order_id, SELL, MIN_BID_NEAREST_TICK, volume)>>)
    ELSE IF client_order_id \in s.asks
    THEN Return([s EXCEPT !.position = @ - volume],
                <<HedgeCall(client_order_id, BUY, MAX_ASK_NEAREST_TICK, volume)>>)
    ELSE Return(s, <<>>)

AT1_on_order_filled_message(s, client_order_id, price, volume) ==
    IF client_order_id \in s.bids
    THEN Return([s EXCEPT !.position = @ + volume, !.order_ids = @ + 1],
                <<HedgeCall(s.order_ids, SELL, MIN_BID_NEAREST_TICK, volume)>>)
    ELSE IF client_order_id \in s.asks
    THEN Return([s EXCEPT !.position = @ - volume, !.order_ids = @ + 1],
                <<HedgeCall(s.order_ids, BUY, MAX_ASK_NEAREST_TICK, volume)>>)
    ELSE Return(s, <<>>)

\* faulty variant: a terminal status books its fill volume into position
AT1_on_order_status_message_BooksFill(s, client_order_id, fill_volume, remaining_volume, fees) ==
    IF remaining_volume = 0
    THEN LET s1 == IF client_order_id = s.bid_id
                   THEN [s EXCEPT !.bid_id = 0]
                   ELSE IF client_order_id = s.ask_id
                   THEN [s EXCEPT !.ask_id = 0]
                   ELSE s
         IN  Return([s1 EXCEPT !.bids = @ \ {client_order_id},
                               !.asks = @ \ {client_order_id},
                               !.position = @ + fill_volume],
                    <<>>)
    ELSE Return(s, <<>>)

AT1_on_order_status_message(s, client_order_id, fill_volume, remaining_volume, fees) ==
    IF remaining_volume = 0
    THEN LET s1 == IF client_order_id = s.bid_id
                   THEN [s EXCEPT !.bid_id = 0]
                   ELSE IF client_order_id = s.ask_id
                   THEN [s EXCEPT !.ask_id = 0]
                   ELSE s
         IN  Return([s1 EXCEPT !.bids = @ \ {client_order_id},
                               !.asks = @ \ {client_order_id}],
                    <<>>)
    ELSE Return(s, <<>>)

\* faulty variant: the error is logged and nothing else
AT1_on_error_message_LogOnly(s, client_order_id) ==
    Return(s, <<>>)

AT1_on_error_message(s, client_order_id) ==
    IF client_order_id # 0
       /\ (client_order_id \in s.bids \/ client_order_id \in s.asks)
    THEN AT1_on_order_status_message(s, client_order_id, 0, 0, 0)
    ELSE Return(s, <<>>)

AT1_on_trade_ticks_message(s, instrument, sequence_number, bp, ap) ==
    Return(update_best_record(s, instrument, sequence_number, ap, bp), <<>>)

\* on_hedge_filled_message of both files: logs only
on_hedge_filled_message(s, client_order_id, price, volume) ==
    Return(s, <<>>)

(***************************************************************************)
(* autotrader_delayhedge.py: the ladder strategy.                          *)
(***************************************************************************)

\* list(base + np.arange(0, -NLADDER, -1) * TICK_SIZE_IN_CENTS + price_adjustment)
LadderDown(base, price_adjustment) ==
    [k \in 1..NLADDER |-> base - (k - 1) * TICK_SIZE_IN_CENTS + price_adjustment]
\* list(base + np.arange(0, NLADDER) * TICK_SIZE_IN_CENTS + price_adjustment)
LadderUp(base, price_adjustment) ==
    [k \in 1..NLADDER |-> base + (k - 1) * TICK_SIZE_IN_CENTS + price_adjustment]

\* on_order_book_update_message, lines 95-156: the arbitrage order and the
\* lists of target prices.  Gives [raised, s, calls, new_bid_price,
\* new_ask_price]; a missing curr_best_ask[FUTURE] or curr_best_bid[FUTURE]
\* raises KeyError before anything is set.
DH_targets(s, bp, bv, ap, av) ==
    LET price_adjustment == -(s.position \div SKEW_DIVISOR) * TICK_SIZE_IN_CENTS
    IN
    IF (bp # 0) /\ (ap # 0)
    THEN IF ~HasKey(s.curr_best_ask, FUTURE)
         THEN [raised |-> TRUE, s |-> s, calls |-> <<>>,
               new_bid_price |-> <<>>, new_ask_price |-> <<>>]
         ELSE IF ((bp - TICK_SIZE_IN_CENTS) > s.curr_best_ask[FUTURE])
                 /\ (s.position > -POSITION_LIMIT)
         THEN \* ETF too high
              LET this_id == s.order_ids
                  order_size == Min(Min(bv, s.position + POSITION_LIMIT),
                                    LOT_SIZE_DH)
              IN  [raised |-> FALSE,
                   s |-> [s EXCEPT !.order_ids = @ + 1,
                                   !.asks = Put(@, this_id, bp)],
                   calls |-> <<InsertCall(this_id, SELL, bp, order_size,
                                          FILL_AND_KILL)>>,
                   new_bid_price |-> <<>>,
                   new_ask_price |-> <<>>]
         ELSE IF ~HasKey(s.curr_best_bid, FUTURE)
         THEN [raised |-> TRUE, s |-> s, calls |-> <<>>,
               new_bid_price |-> <<>>, new_ask_price |-> <<>>]
         ELSE IF ((ap + TICK_SIZE_IN_CENTS) < s.curr_best_bid[FUTURE])
                 /\ (s.position < POSITION_LIMIT)
         THEN \* ETF too low
              LET this_id == s.order_ids
                  order_size == Min(Min(bv, -s.position + POSITION_LIMIT),
                                    LOT_SIZE_DH)
              IN  [raised |-> FALSE,
                   s |-> [s EXCEPT !.order_ids = @ + 1,
                                   !.bids = Put(@, this_id, ap)],
                   calls |-> <<InsertCall(this_id, BUY, ap, order_size,
                                          FILL_AND_KILL)>>,
                   new_bid_price |-> <<>>,
                   new_ask_price |-> <<>>]
         ELSE \* mid_price_future is a half-integer: distances are compared doubled
              LET mid2 == s.curr_best_ask[FUTURE] + s.curr_best_bid[FUTURE]
                  etf_bid_to_mid2 == Abs(mid2 - 2 * bp)
                  etf_ask_to_mid2 == Abs(mid2 - 2 * ap)
              IN  IF etf_bid_to_mid2 > etf_ask_to_mid2
                  THEN \* ETF slightly high
                       [raised |-> FALSE, s |-> s, calls |-> <<>>,
                        new_bid_price |-> LadderDown(bp, price_adjustment),
                        new_ask_price |->
                            LadderUp(Max(bp + TICK_SIZE_IN_CENTS,
                                         s.curr_best_ask[FUTURE]),
                                     price_adjustment)]
                  ELSE \* ETF slightly low
                       [raised |-> FALSE, s |-> s, calls |-> <<>>,
                        new_bid_price |->
                            LadderDown(Min(ap - TICK_SIZE_IN_CENTS,
                                           s.curr_best_bid[FUTURE]),
                                       price_adjustment),
                        new_ask_price |-> LadderUp(ap, price_adjustment)]
    ELSE [raised |-> FALSE, s |-> s, calls |-> <<>>,
          new_bid_price |-> <<>>, new_ask_price |-> <<>>]

\* The keys of a price dict in the order a loop over it meets them.  A dict
\* keeps insertion order; a price is only ever inserted while absent, with a
\* fresh id larger than all before, so that order is the order of the ids.
RECURSIVE KeysInOrder(_)
KeysInOrder(d) ==
    IF DOMAIN d = {} THEN <<>>
    ELSE LET k == CHOOSE x \in DOMAIN d : \A y \in DOMAIN d : d[x] <= d[y]
         IN  <<k>> \o KeysInOrder(Pop(d, k))

\* lines 162-174, one loop: the cancel calls for the resting prices that are
\* not targets
DH_cancels(prices, new_price) ==
    LET keys == KeysInOrder(prices)
        stale == SelectSeq(keys,
                     LAMBDA p : \A k \in 1..Len(new_price) : new_price[k] # p)
    IN  [k \in 1..Len(stale) |-> CancelCall(prices[stale[k]])]

\* lines 162-174, one loop: the target list after new_price.remove(price) for
\* every resting price in it
DH_remaining(prices, new_price) ==
    SelectSeq(new_price, LAMBDA p : ~HasKey(prices, p))

\* lines 181-186: one GOOD_FOR_DAY bid per remaining target price
RECURSIVE DH_insert_bids(_, _, _)
DH_insert_bids(r, new_bid_price, bid_size) ==
    IF new_bid_price = <<>> THEN r
    ELSE LET price == Head(new_bid_price)
             oid == r.s.order_ids
         IN  DH_insert_bids(
                 Return([r.s EXCEPT !.order_ids = @ + 1,
                                    !.bid_prices = Put(@, price, oid),
                                    !.bids = Put(@, oid, price)],
                        Append(r.calls, InsertCall(oid, BUY, price, bid_size,
                                                   GOOD_FOR_DAY))),
                 Tail(new_bid_price), bid_size)

\* lines 189-194
RECURSIVE DH_insert_asks(_, _, _)
DH_insert_asks(r, new_ask_price, ask_size) ==
    IF new_ask_price = <<>> THEN r
    ELSE LET price == Head(new_ask_price)
             oid == r.s.order_ids
         IN  DH_insert_asks(
                 Return([r.s EXCEPT !.order_ids = @ + 1,
                                    !.ask_prices = Put(@, price, oid),
                                    !.asks = Put(@, oid, price)],
                        Append(r.calls, InsertCall(oid, SELL, price, ask_size,
                                                   GOOD_FOR_DAY))),
                 Tail(new_ask_price), ask_size)

\* lines 178-179
DH_bid_size(s) ==
    Min(LOT_SIZE_DH,
        POSITION_LIMIT - s.position
            - (Cardinality(DOMAIN s.bids) * LOT_SIZE_DH) \div NLADDER)
        \div NLADDER
DH_ask_size(s) ==
    Min(LOT_SIZE_DH,
        s.position + POSITION_LIMIT
            - (Cardinality(DOMAIN s.asks) * LOT_SIZE_DH) \div NLADDER)
        \div NLADDER

\* faulty variant: the new levels are sent before the stale ones are cancelled
DH_reconcile_InsertsFirst(t) ==
    LET cancels == DH_cancels(t.s.ask_prices, t.new_ask_price)
                       \o DH_cancels(t.s.bid_prices, t.new_bid_price)
        left_asks == DH_remaining(t.s.ask_prices, t.new_ask_price)
        left_bids == DH_remaining(t.s.bid_prices, t.new_bid_price)
        bid_size == DH_bid_size(t.s)
        ask_size == DH_ask_size(t.s)
        r0 == Return(t.s, t.calls)
        r1 == IF bid_size > 0 /\ Len(left_bids) > 0
              THEN DH_insert_bids(r0, left_bids, bid_size)
              ELSE r0
        r2 == IF ask_size > 0 /\ Len(left_asks) > 0
              THEN DH_insert_asks(r1, left_asks, ask_size)
              ELSE r1
    IN  Return(r2.s, r2.calls \o cancels)

\* lines 162-194
DH_reconcile(t) ==
    LET cancels == DH_cancels(t.s.ask_prices, t.new_ask_price)
                       \o DH_cancels(t.s.bid_prices, t.new_bid_price)
        left_asks == DH_remaining(t.s.ask_prices, t.new_ask_price)
        left_bids == DH_remaining(t.s.bid_prices, t.new_bid_price)
        bid_size == DH_bid_size(t.s)
        ask_size == DH_ask_size(t.s)
        r0 == Return(t.s, t.calls \o cancels)
        r1 == IF bid_size > 0 /\ Len(left_bids) > 0
              THEN DH_insert_bids(r0, left_bids, bid_size)
              ELSE r0
    IN  IF ask_size > 0 /\ Len(left_asks) > 0
        THEN DH_insert_asks(r1, left_asks, ask_size)
        ELSE r1

DH_on_order_book_update_message(s, instrument, sequence_number, bp, bv, ap, av) ==
    LET r == IF instrument = ETF
             THEN LET t == DH_targets(s, bp, bv, ap, av)
                  IN  IF t.raised THEN Raise(t.s, t.calls) ELSE DH_reconcile(t)
             ELSE Return(s, <<>>)
    IN  IF r.raised THEN r
        ELSE Return([update_best_record(r.s, instrument, sequence_number, ap, bp)
                        EXCEPT !.hedge_timer = @ + 1],
                    r.calls)

\* faulty variant: any id that is not a bid is taken for an ask
DH_on_order_filled_message_ElseAsk(s, client_order_id, price, volume) ==
    IF HasKey(s.bids, client_order_id)
    THEN Return([s EXCEPT !.position = @ + volume], <<>>)
    ELSE Return([s EXCEPT !.position = @ - volume], <<>>)

DH_on_order_filled_message(s, client_order_id, price, volume) ==
    IF HasKey(s.bids, client_order_id)
    THEN Return([s EXCEPT !.position = @ + volume], <<>>)
    ELSE IF HasKey(s.asks, client_order_id)
    THEN Return([s EXCEPT !.position = @ - volume], <<>>)
    ELSE Return(s, <<>>)

\* faulty variant: the price slots are left as they are
DH_on_order_status_message_KeepsSlot(s, client_order_id, fill_volume, remaining_volume, fees) ==
    IF remaining_volume = 0
    THEN Return([s EXCEPT !.bids = Pop(@, client_order_id),
                          !.asks = Pop(@, client_order_id)],
                <<>>)
    ELSE Return(s, <<>>)

DH_on_order_status_message(s, client_order_id, fill_volume, remaining_volume, fees) ==
    IF remaining_volume = 0
    THEN LET price == Max(PopValue(s.bids, client_order_id, -1),
                          PopValue(s.asks, client_order_id, -1))
         IN  Return([s EXCEPT !.bids = Pop(@, client_order_id),
                              !.asks = Pop(@, client_order_id),
                              !.bid_prices = Pop(@, price),
                              !.ask_prices = Pop(@, price)],
                    <<>>)
    ELSE Return(s, <<>>)

DH_on_error_message(s, client_order_id) ==
    IF client_order_id # 0
       /\ (HasKey(s.bids, client_order_id) \/ HasKey(s.asks, client_order_id))
    THEN DH_on_order_status_message(s, client_order_id, 0, 0, 0)
    ELSE Return(s, <<>>)

\* faulty variant: the hedge buy is booked with the sign of delta
DH_hedge_buy_SignSlip(r, delta_position) ==
    IF ~HasKey(r.s.curr_best_bid, ETF) \/ ~HasKey(r.s.curr_best_ask, FUTURE)
    THEN Raise(r.s, r.calls)
    ELSE IF (r.s.curr_best_bid[ETF] - r.s.curr_best_ask[FUTURE])
                > 1 * TICK_SIZE_IN_CENTS
            /\ delta_position < 0
    THEN Return([r.s EXCEPT !.order_ids = @ + 1,
                            !.position_future = @ + delta_position,
                            !.hedge_timer = 0],
                Append(r.calls, HedgeCall(r.s.order_ids, BUY,
                                          MAX_ASK_NEAREST_TICK, -delta_position)))
    ELSE r

\* lines 271-276: hedge_timer is 0 here, so multiplier is 1
DH_hedge_buy(r, delta_position) ==
    IF ~HasKey(r.s.curr_best_bid, ETF) \/ ~HasKey(r.s.curr_best_ask, FUTURE)
    THEN Raise(r.s, r.calls)
    ELSE IF (r.s.curr_best_bid[ETF] - r.s.curr_best_ask[FUTURE])
                > 1 * TICK_SIZE_IN_CENTS
            /\ delta_position < 0
    THEN Return([r.s EXCEPT !.order_ids = @ + 1,
                            !.position_future = @ + (-delta_position),
                            !.hedge_timer = 0],
                Append(r.calls, HedgeCall(r.s.order_ids, BUY,
                                          MAX_ASK_NEAREST_TICK, -delta_position)))
    ELSE r

\* faulty variant: a spread of exactly one tick is enough to sell
DH_hedge_sell_AtOneTick(r, delta_position) ==
    IF ~HasKey(r.s.curr_best_bid, FUTURE) \/ ~HasKey(r.s.curr_best_ask, ETF)
    THEN Raise(r.s, r.calls)
    ELSE IF (r.s.curr_best_bid[FUTURE] - r.s.curr_best_ask[ETF])
                >= 1 * TICK_SIZE_IN_CENTS
            /\ delta_position > 0
    THEN Return([r.s EXCEPT !.order_ids = @ + 1,
                            !.position_future = @ - delta_position,
                            !.hedge_timer = 0],
                Append(r.calls, HedgeCall(r.s.order_ids, SELL,
                                          MIN_BID_NEAREST_TICK, delta_position)))
    ELSE r

\* lines 277-282
DH_hedge_sell(r, delta_position) ==
    IF ~HasKey(r.s.curr_best_bid, FUTURE) \/ ~HasKey(r.s.curr_best_ask, ETF)
    THEN Raise(r.s, r.calls)
    ELSE IF (r.s.curr_best_bid[FUTURE] - r.s.curr_best_ask[ETF])
                > 1 * TICK_SIZE_IN_CENTS
            /\ delta_position > 0
    THEN Return([r.s EXCEPT !.order_ids = @ + 1,
                            !.position_future = @ - delta_position,
                            !.hedge_timer = 0],
                Append(r.calls, HedgeCall(r.s.order_ids, SELL,
                                          MIN_BID_NEAREST_TICK, delta_position)))
    ELSE r

DH_on_trade_ticks_message(s, instrument, sequence_number, bp, ap) ==
    LET delta_position == s.position + s.position_future
        s1 == update_best_record(s, instrument, sequence_number, ap, bp)
        s2 == [s1 EXCEPT !.hedge_timer = 0]
        r1 == DH_hedge_buy(Return(s2, <<>>), delta_position)
    IN  IF r1.raised THEN r1 ELSE DH_hedge_sell(r1, delta_position)

(***************************************************************************)
(* The class in use, and the events the venue delivers to it.              *)
(***************************************************************************)
on_order_book_update_message(s, instrument, sequence_number, bp, bv, ap, av) ==
    IF strategy = "single"
    THEN AT1_on_order_book_update_message(s, instrument, sequence_number, bp, bv, ap, av)
    ELSE DH_on_order_book_update_message(s, instrument, sequence_number, bp, bv, ap, av)

on_trade_ticks_message(s, instrument, sequence_number, bp, ap) ==
    IF strategy = "single"
    THEN AT1_on_trade_ticks_message(s, instrument, sequence_number, bp, ap)
    ELSE DH_on_trade_ticks_message(s, instrument, sequence_number, bp, ap)

on_order_filled_message(s, client_order_id, price, volume) ==
    IF strategy = "single"
    THEN AT1_on_order_filled_message(s, client_order_id, price, volume)
    ELSE DH_on_order_filled_message(s, client_order_id, price, volume)

on_order_status_message(s, client_order_id, fill_volume, remaining_volume, fees) ==
    IF strategy = "single"
    THEN AT1_on_order_status_message(s, client_order_id, fill_volume, remaining_volume, fees)
    ELSE DH_on_order_status_message(s, client_order_id, fill_volume, remaining_volume, fees)

on_error_message(s, client_order_id) ==
    IF strategy = "single"
    THEN AT1_on_error_message(s, client_order_id)
    ELSE DH_on_error_message(s, client_order_id)

\* ids the engine tracks as its own orders
TrackedIds(s) ==
    IF strategy = "single" THEN s.bids \cup s.asks
    ELSE DOMAIN s.bids \cup DOMAIN s.asks

MaxId == IF strategy = "single" THEN MaxIdSingle ELSE MaxIdLadder
MaxArb == IF strategy = "single" THEN MaxArbSingle ELSE MaxArbLadder
MaxFills == IF strategy = "single" THEN MaxFillsSingle ELSE MaxFillsLadder

\* the insert and hedge calls among `calls`, in order
Orders(calls) == SelectSeq(calls, LAMBDA c : c.op # "cancel")
\* the ids of the cancel calls among `calls`, in order
RECURSIVE CancelledIds(_)
CancelledIds(calls) ==
    IF calls = <<>> THEN <<>>
    ELSE IF Head(calls).op = "cancel"
    THEN <<Head(calls).id>> \o CancelledIds(Tail(calls))
    ELSE CancelledIds(Tail(calls))

\* The cancel requests in flight after `ids` are sent and order `gone` has
\* ended.  The venue takes the requests in the order sent; a request for an
\* order that has ended, or that repeats one in flight, changes nothing at
\* the venue and is left out.
RECURSIVE Requested(_, _, _)
Requested(queue, ids, gone) ==
    LET q == SelectSeq(queue, LAMBDA x : x # gone)
    IN  IF ids = <<>> THEN q
        ELSE LET id == Head(ids)
                 known == \E k \in 1..Len(sent) :
                              sent[k].id = id /\ sent[k].op = "insert"
                                  /\ venue[k].live
                 queued == \E k \in 1..Len(q) : q[k] = id
             IN  Requested(IF known /\ ~queued /\ id # gone
                           THEN Append(q, id) ELSE q,
                           Tail(ids), gone)
\* the venue's entry for a new order: an insert rests with its volume open; a
\* hedge trades on the reference instrument and is reported by
\* on_hedge_filled_message only
VenueEntry(c) ==
    IF c.op = "insert" THEN [rem |-> c.volume, live |-> TRUE]
    ELSE [rem |-> 0, live |-> FALSE]

\* The callback has run: the engine's fields are those it left, and its
\* gateway calls have reached the venue.  `gone` is the id of the order the
\* event ended (0: none).  An exception leaves the callback for the framework,
\* which is not part of this repository: the model delivers no event after it.
Deliver(r, gone) ==
    /\ ~failed
    /\ r.s.order_ids - 1 <= MaxId
    /\ Cardinality({k \in 1..Len(sent \o Orders(r.calls)) :
                       (sent \o Orders(r.calls))[k].lifespan = FILL_AND_KILL})
           <= MaxArb
    /\ order_ids' = r.s.order_ids
    /\ bids' = r.s.bids
    /\ asks' = r.s.asks
    /\ bid_id' = r.s.bid_id
    /\ bid_price' = r.s.bid_price
    /\ ask_id' = r.s.ask_id
    /\ ask_price' = r.s.ask_price
    /\ position' = r.s.position
    /\ position_future' = r.s.position_future
    /\ curr_best_bid' = r.s.curr_best_bid
    /\ curr_best_ask' = r.s.curr_best_ask
    /\ curr_sequence' = r.s.curr_sequence
    /\ bid_prices' = r.s.bid_prices
    /\ ask_prices' = r.s.ask_prices
    /\ hedge_timer' = r.s.hedge_timer
    /\ failed' = (failed \/ r.raised)
    /\ sent' = sent \o Orders(r.calls)
    /\ cancel_req' = Requested(cancel_req, CancelledIds(r.calls), gone)
    /\ strategy' = strategy
    /\ market' = market

\* the venue's entries after the calls of r, entry k replaced by e
VenueAfter(r, k, e) ==
    [j \in 1..Len(venue) |-> IF j = k THEN e ELSE venue[j]]
        \o [j \in 1..Len(Orders(r.calls)) |-> VenueEntry(Orders(r.calls)[j])]

\* entries of sent that are orders on the tradable instrument still live
LiveOrders == {k \in 1..Len(sent) : sent[k].op = "insert" /\ venue[k].live}

\* ids the venue may name that the engine does not track: those of orders
\* that have ended, of hedge orders, and the first id not yet handed out
UntrackedIds ==
    ({sent[k].id : k \in 1..Len(sent)} \cup {order_ids}) \ TrackedIds(Eng)

\* a fill takes all that remains of the order or, of an order that has not
\* traded yet, one lot
FillVolumes(k) ==
    {venue[k].rem} \cup (IF venue[k].rem = sent[k].volume THEN {1} ELSE {})

\* the market data of the run
BookFeed ==
    IF market = "wide" THEN WideBookEvents
    ELSE IF market = "floor" THEN FloorBookEvents
    ELSE BookEvents
TickFeed ==
    IF market = "wide" THEN WideTickEvents
    ELSE IF market = "floor" THEN FloorTickEvents
    ELSE TickEvents

BookUpdate ==
    \E e \in BookFeed :
        LET r == on_order_book_update_message(Eng, e[1], e[2], e[3][1], e[3][2],
                                              e[3][3], e[3][4])
        IN  /\ hedge_timer < MaxTimer \/ strategy = "single"
            /\ Deliver(r, 0)
            /\ venue' = VenueAfter(r, 0, <<>>)
            /\ fills' = fills

TradeTicks ==
    \E e \in TickFeed :
        LET r == on_trade_ticks_message(Eng, e[1], e[2], e[3][1], e[3][3])
        IN  /\ Deliver(r, 0)
            /\ venue' = VenueAfter(r, 0, <<>>)
            /\ fills' = fills

\* price priority: no other live order of the engine on the side of order k
\* has volume open at a better price
Foremost(k) ==
    \A j \in LiveOrders :
        (sent[j].side = sent[k].side /\ venue[j].rem > 0)
            => IF sent[k].side = BUY
               THEN sent[j].price <= sent[k].price
               ELSE sent[j].price >= sent[k].price

\* the venue fills a live order, for no more than remains of it
OrderFilled ==
    \E k \in LiveOrders :
        \E v \in FillVolumes(k) :
            LET r == on_order_filled_message(Eng, sent[k].id, sent[k].price, v)
            IN  /\ venue[k].rem > 0
                /\ Foremost(k)
                /\ fills < MaxFills
                /\ Deliver(r, 0)
                /\ venue' = VenueAfter(r, k, [venue[k] EXCEPT !.rem = @ - v])
                /\ fills' = fills + 1

\* a fill report for an id the engine does not track
OrderFilledUntracked ==
    \E id \in UntrackedIds :
        LET r == on_order_filled_message(Eng, id, TICK_SIZE_IN_CENTS, 1)
        IN  /\ Deliver(r, 0)
            /\ venue' = VenueAfter(r, 0, <<>>)
            /\ fills' = fills

\* the terminal status of an order: it is filled, it was fill-and-kill, or
\* the venue has taken the oldest cancel request in flight, which is for it
OrderStatusTerminal ==
    \E k \in LiveOrders :
        LET r == on_order_status_message(Eng, sent[k].id,
                                         sent[k].volume - venue[k].rem, 0, 0)
        IN  /\ \/ venue[k].rem = 0
               \/ sent[k].lifespan = FILL_AND_KILL
               \/ cancel_req # <<>> /\ sent[k].id = Head(cancel_req)
            /\ Deliver(r, sent[k].id)
            /\ venue' = VenueAfter(r, k, [rem |-> 0, live |-> FALSE])
            /\ fills' = fills

\* a status with volume remaining
OrderStatusOpen ==
    \E k \in LiveOrders :
        LET r == on_order_status_message(Eng, sent[k].id,
                                         sent[k].volume - venue[k].rem,
                                         venue[k].rem, 0)
        IN  /\ venue[k].rem > 0
            /\ Deliver(r, 0)
            /\ venue' = VenueAfter(r, 0, <<>>)
            /\ fills' = fills

\* the terminal status of an order, delivered again
OrderStatusReplay ==
    \E k \in 1..Len(sent) :
        LET r == on_order_status_message(Eng, sent[k].id, sent[k].volume, 0, 0)
        IN  /\ sent[k].op = "insert"
            /\ ~venue[k].live
            /\ Deliver(r, 0)
            /\ venue' = VenueAfter(r, 0, <<>>)
            /\ fills' = fills

\* the venue rejects the order it was sent last
OrderError ==
    \E k \in LiveOrders :
        LET r == on_error_message(Eng, sent[k].id)
        IN  /\ k = Len(sent)
            /\ venue[k].rem = sent[k].volume
            /\ Deliver(r, sent[k].id)
            /\ venue' = VenueAfter(r, k, [rem |-> 0, live |-> FALSE])
            /\ fills' = fills

\* an error of the venue (id 0) or one about an id the engine does not track
OtherError ==
    \E id \in {0} \cup UntrackedIds :
        LET r == on_error_message(Eng, id)
        IN  /\ Deliver(r, 0)
            /\ venue' = VenueAfter(r, 0, <<>>)
            /\ fills' = fills

HedgeFilled ==
    \E k \in 1..Len(sent) :
        LET r == on_hedge_filled_message(Eng, sent[k].id, sent[k].price,
                                         sent[k].volume)
        IN  /\ sent[k].op = "hedge"
            /\ Deliver(r, 0)
            /\ venue' = VenueAfter(r, 0, <<>>)
            /\ fills' = fills

\* __init__ of autotrader1.py
AT1_init ==
    /\ strategy = "single"
    /\ order_ids = 1
    /\ bids = {}
    /\ asks = {}
    /\ ask_id = 0 /\ ask_price = 0 /\ bid_id = 0 /\ bid_price = 0
    /\ position = 0
    /\ position_future = 0
    /\ curr_best_bid = EmptyDict
    /\ curr_best_ask = EmptyDict
    /\ curr_sequence = -1
    /\ bid_prices = EmptyDict
    /\ ask_prices = EmptyDict
    /\ hedge_timer = 0
    /\ failed = FALSE
    /\ sent = <<>>
    /\ venue = <<>>
    /\ cancel_req = <<>>
    /\ fills = 0

\* __init__ of autotrader_delayhedge.py
DH_init ==
    /\ strategy = "ladder"
    /\ order_ids = 1
    /\ bids = EmptyDict
    /\ asks = EmptyDict
    /\ ask_id = 0 /\ ask_price = 0 /\ bid_id = 0 /\ bid_price = 0
    /\ position = 0
    /\ position_future = 0
    /\ curr_best_bid = EmptyDict
    /\ curr_best_ask = EmptyDict
    /\ curr_sequence = -1
    /\ bid_prices = EmptyDict
    /\ ask_prices = EmptyDict
    /\ hedge_timer = 0
    /\ failed = FALSE
    /\ sent = <<>>
    /\ venue = <<>>
    /\ cancel_req = <<>>
    /\ fills = 0

InitSingle == AT1_init /\ market = "mid"
InitLadder == DH_init /\ market = "mid"
Init == InitSingle \/ InitLadder
InitSingleWide == AT1_init /\ market = "wide"
InitSingleAny == InitSingle \/ InitSingleWide
InitLadderFloor == DH_init /\ market = "floor"

Next ==
    \/ BookUpdate
    \/ TradeTicks
    \/ OrderFilled
    \/ OrderFilledUntracked
    \/ OrderStatusTerminal
    \/ OrderStatusOpen
    \/ OrderStatusReplay
    \/ OrderError
    \/ OtherError
    \/ HedgeFilled

SpecSingle == InitSingle /\ [][Next]_vars
SpecLadder == InitLadder /\ [][Next]_vars
Spec == Init /\ [][Next]_vars
SpecSingleAny == InitSingleAny /\ [][Next]_vars
SpecLadderFloor == InitLadderFloor /\ [][Next]_vars

(***************************************************************************)
(* What the venue and the gateway have seen, for the claims.               *)
(***************************************************************************)
\* entries of sent that are GOOD_FOR_DAY orders on `side` for which the engine
\* has received neither a zero-remaining status nor an error
OpenQuotes(side) ==
    {k \in LiveOrders : sent[k].lifespan = GOOD_FOR_DAY /\ sent[k].side = side}

\* the signed volume of the hedge orders sent: bought minus sold
RECURSIVE HedgedVolume(_)
HedgedVolume(calls) ==
    IF calls = <<>> THEN 0
    ELSE (IF Head(calls).op = "hedge"
          THEN (IF Head(calls).side = BUY THEN Head(calls).volume
                ELSE -Head(calls).volume)
          ELSE 0) + HedgedVolume(Tail(calls))

\* position + position_future
Delta == position + position_future

(***************************************************************************)
(* C1.  The tradable position stays within the position limit after every  *)
(* event, while the venue fills only orders the engine inserted, each for   *)
(* no more than its volume and before its terminal status.                  *)
(***************************************************************************)
C1_PositionWithinLimit ==
    -POSITION_LIMIT <= position /\ position <= POSITION_LIMIT

(***************************************************************************)
(* C2.  Single-pair strategy: at most one GOOD_FOR_DAY bid and at most one  *)
(* GOOD_FOR_DAY ask are outstanding (inserted, no zero-remaining status or  *)
(* error received yet).                                                     *)
(***************************************************************************)
C2_AtMostOneQuotePerSide ==
    strategy = "single" =>
        /\ Cardinality(OpenQuotes(BUY)) <= 1
        /\ Cardinality(OpenQuotes(SELL)) <= 1

(***************************************************************************)
(* C3.  Ladder strategy: no two outstanding GOOD_FOR_DAY orders on the same *)
(* side have the same price.                                                *)
(***************************************************************************)
C3_NoSharedPriceLevel ==
    strategy = "ladder" =>
        \A side \in {BUY, SELL} :
            \A j, k \in OpenQuotes(side) :
                j # k => sent[j].price # sent[k].price


\* volumes and ids the claims about one callback are tried with
FillSizes == {1, 5, 90}
AnyIds == 1..(MaxId + 1)

(***************************************************************************)
(* C4.  Single-pair strategy: a fill of an id tracked as a bid adds the     *)
(* filled volume to position and sends exactly one hedge, a sell of that    *)
(* volume at MIN_BID_NEAREST_TICK; a fill of an id tracked as an ask        *)
(* subtracts it and sends exactly one hedge buy of that volume at           *)
(* MAX_ASK_NEAREST_TICK.  So the signed volume of the hedges sent is        *)
(* -position after every event.                                             *)
(***************************************************************************)
C4_FillHedgedAtOnce ==
    strategy = "single" =>
        /\ \A id \in bids : \A v \in FillSizes :
               LET r == on_order_filled_message(Eng, id, TICK_SIZE_IN_CENTS, v)
               IN  /\ ~r.raised
                   /\ r.s.position = position + v
                   /\ Len(r.calls) = 1
                   /\ r.calls[1].op = "hedge"
                   /\ r.calls[1].side = SELL
                   /\ r.calls[1].volume = v
                   /\ r.calls[1].price = MIN_BID_NEAREST_TICK
        /\ \A id \in asks \ bids : \A v \in FillSizes :
               LET r == on_order_filled_message(Eng, id, TICK_SIZE_IN_CENTS, v)
               IN  /\ ~r.raised
                   /\ r.s.position = position - v
                   /\ Len(r.calls) = 1
                   /\ r.calls[1].op = "hedge"
                   /\ r.calls[1].side = BUY
                   /\ r.calls[1].volume = v
                   /\ r.calls[1].price = MAX_ASK_NEAREST_TICK
        /\ HedgedVolume(sent) = -position

\* a bid and an ask have both traded and both fills are hedged
C4_Witness ==
    /\ strategy = "single"
    /\ \E j, k \in 1..Len(sent) :
           /\ sent[j].op = "hedge" /\ sent[j].side = SELL
           /\ sent[k].op = "hedge" /\ sent[k].side = BUY

(***************************************************************************)
(* C5.  Ladder strategy: every fill is eventually hedged: whenever          *)
(* position + position_future is nonzero and trade ticks keep arriving, a   *)
(* hedge is eventually sent that restores position + position_future = 0.   *)
(***************************************************************************)
C5_EveryFillEventuallyHedged ==
    (strategy = "ladder" /\ Delta # 0) ~> (Delta = 0)

(***************************************************************************)
(* C5 as amended.  A fill is hedged at a trade tick at which the recorded   *)
(* spread exceeds one tick in the direction of the imbalance: with          *)
(* delta = position + position_future < 0 and                               *)
(* best_bid(ETF) - best_ask(FUTURE) > TICK (as recorded once the tick's own *)
(* prices are) the tick sends one hedge buy of -delta; with delta > 0 and   *)
(* best_bid(FUTURE) - best_ask(ETF) > TICK one hedge sell of delta; each    *)
(* restores position + position_future = 0.                                 *)
(***************************************************************************)
C5_FavourableTickHedges ==
    (strategy = "ladder" /\ Delta # 0) =>
        \A e \in TickEvents :
            LET r == on_trade_ticks_message(Eng, e[1], e[2], e[3][1], e[3][3])
            IN  /\ ~r.raised
                /\ (Delta < 0
                    /\ r.s.curr_best_bid[ETF] - r.s.curr_best_ask[FUTURE]
                           > TICK_SIZE_IN_CENTS)
                   => /\ r.s.position + r.s.position_future = 0
                      /\ r.calls = <<HedgeCall(order_ids, BUY,
                                               MAX_ASK_NEAREST_TICK, -Delta)>>
                /\ (Delta > 0
                    /\ r.s.curr_best_bid[FUTURE] - r.s.curr_best_ask[ETF]
                           > TICK_SIZE_IN_CENTS)
                   => /\ r.s.position + r.s.position_future = 0
                      /\ r.calls = <<HedgeCall(order_ids, SELL,
                                               MIN_BID_NEAREST_TICK, Delta)>>

\* a fill has been hedged at a trade tick
C5_Witness ==
    strategy = "ladder" /\ position # 0 /\ Delta = 0

(***************************************************************************)
(* C6.  Right after on_order_status(id, fill_volume, 0, fees) the id is     *)
(* tracked nowhere: it is in neither bids nor asks, it is not bid_id or     *)
(* ask_id (single-pair), and no entry of bid_prices or ask_prices maps to   *)
(* it (ladder).                                                             *)
(***************************************************************************)
C6_TerminalStatusUntracks ==
    \A id \in AnyIds : \A f \in {0} \cup FillSizes :
        LET r == on_order_status_message(Eng, id, f, 0, 0)
        IN  /\ ~r.raised
            /\ id \notin TrackedIds(r.s)
            /\ strategy = "single" => (r.s.bid_id # id /\ r.s.ask_id # id)
            /\ strategy = "ladder" =>
                   /\ \A p \in DOMAIN r.s.bid_prices : r.s.bid_prices[p] # id
                   /\ \A p \in DOMAIN r.s.ask_prices : r.s.ask_prices[p] # id

\* the slot an order holds
HoldsSlot(id) ==
    IF strategy = "single" THEN id \in {bid_id, ask_id}
    ELSE \/ \E p \in DOMAIN bid_prices : bid_prices[p] = id
         \/ \E p \in DOMAIN ask_prices : ask_prices[p] = id

\* an order has ended and is tracked no more, while another still holds a slot
C6_Witness ==
    /\ \E k \in 1..Len(sent) :
           /\ sent[k].op = "insert" /\ ~venue[k].live
           /\ sent[k].id \notin TrackedIds(Eng)
    /\ \E id \in TrackedIds(Eng) : HoldsSlot(id)

(***************************************************************************)
(* C7.  Processing the same terminal status twice in a row leaves the       *)
(* engine state as processing it once does, and the second processing       *)
(* makes no gateway call.                                                   *)
(***************************************************************************)
C7_TerminalStatusIdempotent ==
    \A id \in AnyIds : \A f \in {0} \cup FillSizes :
        LET once == on_order_status_message(Eng, id, f, 0, 0)
            twice == on_order_status_message(once.s, id, f, 0, 0)
        IN  /\ ~twice.raised
            /\ twice.s = once.s
            /\ twice.calls = <<>>

\* the terminal status of some tracked order changes the state when first
\* processed
C7_Witness ==
    \E id \in TrackedIds(Eng) :
        /\ HoldsSlot(id)
        /\ on_order_status_message(Eng, id, 5, 0, 0).s # Eng

(***************************************************************************)
(* C8.  on_error with a nonzero tracked id leaves the state that            *)
(* on_order_status(id, 0, 0, 0) leaves; with id 0 or an untracked id it     *)
(* changes nothing and makes no gateway call.                               *)
(***************************************************************************)
C8_ErrorIsTerminalStatus ==
    \A id \in {0} \cup AnyIds :
        LET r == on_error_message(Eng, id)
        IN  IF id # 0 /\ id \in TrackedIds(Eng)
            THEN /\ r = on_order_status_message(Eng, id, 0, 0, 0)
                 /\ id \notin TrackedIds(r.s)
                 /\ r.calls = <<>>
            ELSE r = Return(Eng, <<>>)

\* the venue can reject an order that is tracked, and there is an id that is
\* not
C8_Witness ==
    /\ \E k \in LiveOrders :
           /\ sent[k].id \in TrackedIds(Eng)
           /\ on_error_message(Eng, sent[k].id).s # Eng
    /\ \E k \in 1..Len(sent) : sent[k].id \notin TrackedIds(Eng)

(***************************************************************************)
(* C9.  A fill for an id that is not tracked in bids or asks changes no     *)
(* state variable and sends no hedge.                                       *)
(***************************************************************************)
C9_UntrackedFillIgnored ==
    \A id \in AnyIds \ TrackedIds(Eng) : \A v \in FillSizes :
        on_order_filled_message(Eng, id, TICK_SIZE_IN_CENTS, v)
            = Return(Eng, <<>>)

\* an order has traded and ended: its id is tracked no more
C9_Witness ==
    /\ position # 0
    /\ \E k \in 1..Len(sent) :
           /\ sent[k].op = "insert" /\ ~venue[k].live
           /\ sent[k].id \notin TrackedIds(Eng)

(***************************************************************************)
(* C10.  The ids passed to insert and hedge calls are strictly increasing   *)
(* in call order, starting at 1: no id is used for two orders.              *)
(***************************************************************************)
C10_IdsIncrease ==
    /\ sent # <<>> => sent[1].id = 1
    /\ \A j, k \in 1..Len(sent) : j < k => sent[j].id < sent[k].id

\* inserts and a hedge have been sent after an order has ended
C10_Witness ==
    /\ Len(sent) >= 4
    /\ \E k \in 1..Len(sent) : sent[k].op = "hedge"
    /\ \E k \in 1..Len(sent) : sent[k].op = "insert" /\ ~venue[k].live
    /\ sent[Len(sent)].op = "insert"

\* The ladder strategy with trade ticks that keep arriving.  A tick that
\* repeats the recorded prices while no hedge is due changes no variable: a
\* run in which only such ticks arrive from some point on is a run that
\* stutters there, with the engine neither failed nor out of ids.
FairLadder == InitLadder /\ [][Next]_vars /\ WF_vars(TradeTicks)


(***************************************************************************)
(* C11.  When every nonzero price of the market data is a multiple of       *)
(* TICK_SIZE_IN_CENTS (all the markets of this model are such), every       *)
(* price passed to an insert call or to a hedge call is a nonzero multiple  *)
(* of TICK_SIZE_IN_CENTS.                                                   *)
(***************************************************************************)
C11_PricesOnTickGrid ==
    \A k \in 1..Len(sent) :
        /\ sent[k].price # 0
        /\ sent[k].price % TICK_SIZE_IN_CENTS = 0


\* tradable touches with no bid, no ask, or neither
BidOnlyTouch == <<10000, 3, 0, 0>>
ZeroTouches == {NoTouch, AskOnlyTouch, BidOnlyTouch}

\* the ids a cancel call of `calls` names
CancelledSet(calls) ==
    {calls[k].id : k \in {j \in 1..Len(calls) : calls[j].op = "cancel"}}

\* the ids of the orders the engine holds as resting
RestingIds ==
    IF strategy = "single" THEN {bid_id, ask_id} \ {0}
    ELSE {bid_prices[p] : p \in DOMAIN bid_prices}
             \cup {ask_prices[p] : p \in DOMAIN ask_prices}

(***************************************************************************)
(* C12.  A book update of the tradable instrument whose best bid or best    *)
(* ask is zero inserts no order and sends a cancel request for every order  *)
(* the engine holds as resting: bid_id and ask_id when nonzero              *)
(* (single-pair), every id in bid_prices and ask_prices (ladder).           *)
(***************************************************************************)
C12_ZeroTouchCancelsAll ==
    \A t \in ZeroTouches :
        LET r == on_order_book_update_message(Eng, ETF, 1, t[1], t[2], t[3], t[4])
        IN  /\ ~r.raised
            /\ Orders(r.calls) = <<>>
            /\ RestingIds \subseteq CancelledSet(r.calls)


\* tradable touches with a bid and an ask
QuoteTouches == {LowTouch, HighTouch, DeepTouch}
\* the FILL_AND_KILL inserts among `calls`
Arbitrages(calls) ==
    SelectSeq(calls, LAMBDA c : c.op = "insert" /\ c.lifespan = FILL_AND_KILL)
\* the GOOD_FOR_DAY inserts on `side` among `calls`
Quotes(calls, side) ==
    SelectSeq(calls, LAMBDA c : c.op = "insert" /\ c.lifespan = GOOD_FOR_DAY
                                    /\ c.side = side)

(***************************************************************************)
(* C13.  Single-pair strategy, tradable book update with nonzero best bid   *)
(* and ask: if best_bid(ETF) - TICK > recorded best_ask(FUTURE) and         *)
(* position > -POSITION_LIMIT, the engine inserts exactly one               *)
(* FILL_AND_KILL order, a sell at best_bid(ETF) for                         *)
(* min(volume at the best bid, POSITION_LIMIT + position); no arbitrage buy *)
(* is sent and no ask is quoted.                                            *)
(***************************************************************************)
C13_SellArbitrage ==
    strategy = "single" =>
        \A t \in QuoteTouches :
            (/\ HasKey(curr_best_ask, FUTURE)
             /\ t[1] - TICK_SIZE_IN_CENTS > curr_best_ask[FUTURE]
             /\ position > -POSITION_LIMIT)
            => LET r == on_order_book_update_message(Eng, ETF, 1, t[1], t[2],
                                                     t[3], t[4])
               IN  /\ ~r.raised
                   /\ Arbitrages(r.calls)
                          = <<InsertCall(order_ids, SELL, t[1],
                                         Min(t[2], POSITION_LIMIT + position),
                                         FILL_AND_KILL)>>
                   /\ Quotes(r.calls, SELL) = <<>>

\* an arbitrage sell has been sent that the position clipped
C13_Witness ==
    /\ strategy = "single"
    /\ \E k \in 1..Len(sent) :
           /\ sent[k].lifespan = FILL_AND_KILL
           /\ sent[k].side = SELL
           /\ sent[k].volume < POSITION_LIMIT


(***************************************************************************)
(* C14.  Tradable book update with nonzero best bid and ask where the       *)
(* sell-arbitrage condition does not hold: if best_ask(ETF) + TICK <        *)
(* recorded best_bid(FUTURE) and position < POSITION_LIMIT, the engine      *)
(* inserts one FILL_AND_KILL buy at best_ask(ETF) for                       *)
(* min(volume at the best ask, POSITION_LIMIT - position).                  *)
(***************************************************************************)
C14_BuyArbitrage ==
    \A t \in QuoteTouches :
        (/\ HasKey(curr_best_ask, FUTURE)
         /\ HasKey(curr_best_bid, FUTURE)
         /\ ~(/\ t[1] - TICK_SIZE_IN_CENTS > curr_best_ask[FUTURE]
              /\ position > -POSITION_LIMIT)
         /\ t[3] + TICK_SIZE_IN_CENTS < curr_best_bid[FUTURE]
         /\ position < POSITION_LIMIT)
        => LET r == on_order_book_update_message(Eng, ETF, 1, t[1], t[2],
                                                 t[3], t[4])
           IN  /\ ~r.raised
               /\ Arbitrages(r.calls)
                      = <<InsertCall(order_ids, BUY, t[3],
                                     Min(t[4], POSITION_LIMIT - position),
                                     FILL_AND_KILL)>>


ScenarioTouches == {LowTouch, DeepTouch}
\* the reference touch recorded has mid-price 10050
ReferenceMidIs10050 ==
    /\ HasKey(curr_best_bid, FUTURE)
    /\ HasKey(curr_best_ask, FUTURE)
    /\ curr_best_bid[FUTURE] + curr_best_ask[FUTURE] = 2 * 10050

(***************************************************************************)
(* C16.  Single-pair strategy, no arbitrage, position 0, tradable best      *)
(* bid/ask (10000, 10100) and any recorded reference touch with mid-price   *)
(* 10050: the target bid is 10000 and the target ask is                     *)
(* max(10100, reference best ask).                                          *)
(***************************************************************************)
C16_EquidistantKeepsBid ==
    (strategy = "single" /\ position = 0 /\ ReferenceMidIs10050) =>
        \A t \in ScenarioTouches :
            LET q == AT1_targets(Eng, t[1], t[2], t[3], t[4])
            IN  (~q.raised /\ q.calls = <<>>) =>
                    /\ q.new_bid_price = 10000
                    /\ q.new_ask_price = Max(10100, curr_best_ask[FUTURE])

(***************************************************************************)
(* C16 as amended.  In that scenario the two distances to the mid-price     *)
(* are equal, which the code treats as "ETF slightly low": the target ask   *)
(* is 10100, the tradable best ask, and the target bid is                   *)
(* min(10000, reference best bid).                                          *)
(***************************************************************************)
C16_EquidistantKeepsAsk ==
    (strategy = "single" /\ position = 0 /\ ReferenceMidIs10050) =>
        \A t \in ScenarioTouches :
            LET q == AT1_targets(Eng, t[1], t[2], t[3], t[4])
            IN  (~q.raised /\ q.calls = <<>>) =>
                    /\ q.new_ask_price = 10100
                    /\ q.new_bid_price = Min(10000, curr_best_bid[FUTURE])

\* with the wide reference touch recorded, the pair is quoted at 9900 and 10100
C16_Witness ==
    /\ strategy = "single" /\ position = 0 /\ ReferenceMidIs10050
    /\ curr_best_bid[FUTURE] = 9900
    /\ \E j, k \in 1..Len(sent) :
           /\ sent[j].lifespan = GOOD_FOR_DAY /\ sent[j].side = BUY
           /\ sent[j].price = 9900
           /\ sent[k].lifespan = GOOD_FOR_DAY /\ sent[k].side = SELL
           /\ sent[k].price = 10100


(***************************************************************************)
(* C17.  Every callback completes normally in every reachable state,        *)
(* whatever the order of the events: no callback ends by raising, also not  *)
(* a tradable book update or a trade tick that arrives before a price of    *)
(* the reference (or tradable) instrument has been recorded.                *)
(***************************************************************************)
C17_NoCallbackRaises == ~failed


\* a recorded price dict `after` against `before`, for an event of
\* instrument `inst` that carries `price`: zero leaves the entry of inst as
\* it was, nonzero overwrites it, the other entries stay
RecordFrame(before, after, inst, price) ==
    /\ \A i \in {FUTURE, ETF} \ {inst} :
           /\ HasKey(after, i) = HasKey(before, i)
           /\ HasKey(before, i) => after[i] = before[i]
    /\ price = 0 =>
           /\ HasKey(after, inst) = HasKey(before, inst)
           /\ HasKey(before, inst) => after[inst] = before[inst]
    /\ price # 0 => (HasKey(after, inst) /\ after[inst] = price)

\* engine state `after` against `before`, for a market-data event
BestRecordFrame(before, after, inst, seq, ask, bid) ==
    /\ RecordFrame(before.curr_best_ask, after.curr_best_ask, inst, ask)
    /\ RecordFrame(before.curr_best_bid, after.curr_best_bid, inst, bid)
    /\ after.curr_sequence = Max(before.curr_sequence, seq)

(***************************************************************************)
(* C18.  A book update or trade tick whose best ask (best bid) is zero      *)
(* leaves the recorded best ask (best bid) of its instrument unchanged and  *)
(* never changes the record of the other instrument; a nonzero field        *)
(* overwrites the recorded value, each field by itself, also when the       *)
(* sequence number is below the cursor; the cursor becomes                  *)
(* max(cursor, sequence).  Stated of update_best_record for all arguments,  *)
(* and of every book update and trade tick of the market.                   *)
(***************************************************************************)
C18_BestRecordFrame ==
    /\ \A inst \in {FUTURE, ETF} : \A seq \in 0..2 :
           \A ask \in {0, 10100, 10400} : \A bid \in {0, 10000, 10300} :
               LET u == update_best_record(Eng, inst, seq, ask, bid)
               IN  /\ BestRecordFrame(Eng, u, inst, seq, ask, bid)
                   /\ [u EXCEPT !.curr_best_ask = curr_best_ask,
                                !.curr_best_bid = curr_best_bid,
                                !.curr_sequence = curr_sequence] = Eng
    /\ \A e \in BookFeed :
           LET r == on_order_book_update_message(Eng, e[1], e[2], e[3][1],
                                                 e[3][2], e[3][3], e[3][4])
           IN  BestRecordFrame(Eng, r.s, e[1], e[2], e[3][3], e[3][1])
    /\ \A e \in TickFeed :
           LET r == on_trade_ticks_message(Eng, e[1], e[2], e[3][1], e[3][3])
           IN  BestRecordFrame(Eng, r.s, e[1], e[2], e[3][3], e[3][1])


\* ids with a cancel request in flight
CancelPending == {cancel_req[k] : k \in 1..Len(cancel_req)}
\* +1 for an id sent as a buy, -1 for one sent as a sell
SideSign(id) ==
    IF \E k \in 1..Len(sent) : sent[k].id = id /\ sent[k].side = BUY
    THEN 1 ELSE -1

(***************************************************************************)
(* C19.  An order stays tracked in bids/asks until a zero-remaining status  *)
(* or an error for its own id is processed: no book update, trade tick,     *)
(* fill, hedge fill, status with volume remaining, and no status or error   *)
(* for another id removes it.  A fill for an id whose cancel has been       *)
(* requested and not confirmed still changes position by the filled         *)
(* volume and, in the single-pair strategy, sends the hedge.                *)
(***************************************************************************)
C19_TrackedUntilTerminal ==
    /\ \A id \in TrackedIds(Eng) :
           /\ \A e \in BookFeed :
                  id \in TrackedIds(on_order_book_update_message(
                             Eng, e[1], e[2], e[3][1], e[3][2], e[3][3],
                             e[3][4]).s)
           /\ \A e \in TickFeed :
                  id \in TrackedIds(on_trade_ticks_message(
                             Eng, e[1], e[2], e[3][1], e[3][3]).s)
           /\ \A j \in AnyIds : \A v \in FillSizes :
                  /\ id \in TrackedIds(on_order_filled_message(
                                Eng, j, TICK_SIZE_IN_CENTS, v).s)
                  /\ id \in TrackedIds(on_order_status_message(
                                Eng, j, v, 1, 0).s)
                  /\ id \in TrackedIds(on_hedge_filled_message(
                                Eng, j, TICK_SIZE_IN_CENTS, v).s)
           /\ \A j \in ({0} \cup AnyIds) \ {id} :
                  /\ id \in TrackedIds(on_order_status_message(Eng, j, 0, 0, 0).s)
                  /\ id \in TrackedIds(on_error_message(Eng, j).s)
    /\ \A id \in CancelPending : \A v \in FillSizes :
           LET r == on_order_filled_message(Eng, id, TICK_SIZE_IN_CENTS, v)
           IN  /\ id \in TrackedIds(Eng)
               /\ ~r.raised
               /\ r.s.position = position + SideSign(id) * v
               /\ strategy = "single" =>
                      /\ Len(r.calls) = 1
                      /\ r.calls[1].op = "hedge"
                      /\ r.calls[1].volume = v

\* the venue can fill an order whose cancel is in flight
C19_Witness ==
    \E k \in LiveOrders :
        /\ sent[k].id \in CancelPending
        /\ sent[k].id \in TrackedIds(Eng)
        /\ venue[k].rem > 0
        /\ Foremost(k)
        /\ fills < MaxFills

(***************************************************************************)
(* C20.  The engine keeps at most one cancel request in flight per order:   *)
(* no callback sends a cancel for an id for which a cancel is already sent  *)
(* and not yet confirmed by a terminal status.                              *)
(***************************************************************************)
C20_OneCancelInFlight ==
    \A e \in BookFeed :
        LET r == on_order_book_update_message(Eng, e[1], e[2], e[3][1],
                                              e[3][2], e[3][3], e[3][4])
        IN  CancelledSet(r.calls) \cap CancelPending = {}



\* the resting orders the engine holds on `side`, as <<id, price>>: bid_id and
\* ask_id with their prices (single-pair), the price slots (ladder)
Resting(side) ==
    IF strategy = "single"
    THEN IF side = BUY
         THEN (IF bid_id # 0 THEN {<<bid_id, bid_price>>} ELSE {})
         ELSE (IF ask_id # 0 THEN {<<ask_id, ask_price>>} ELSE {})
    ELSE IF side = BUY
         THEN {<<bid_prices[p], p>> : p \in DOMAIN bid_prices}
         ELSE {<<ask_prices[p], p>> : p \in DOMAIN ask_prices}

\* the prices a tradable book update with touch t wants quoted on `side`
TargetPrices(t, side) ==
    IF strategy = "single"
    THEN LET g == AT1_targets(Eng, t[1], t[2], t[3], t[4])
         IN  {IF side = BUY THEN g.new_bid_price ELSE g.new_ask_price} \ {0}
    ELSE LET g == DH_targets(Eng, t[1], t[2], t[3], t[4])
             l == IF side = BUY THEN g.new_bid_price ELSE g.new_ask_price
         IN  {l[k] : k \in 1..Len(l)}

\* calls[i] is a GOOD_FOR_DAY insert on `side`
IsQuote(calls, i, side) ==
    /\ calls[i].op = "insert"
    /\ calls[i].lifespan = GOOD_FOR_DAY
    /\ calls[i].side = side

(***************************************************************************)
(* C21.  Both strategies, one book update of the tradable instrument: no    *)
(* GOOD_FOR_DAY insert on a side is followed by a cancel of an order        *)
(* resting on that side; and when a GOOD_FOR_DAY order is inserted on a     *)
(* side, every order resting on that side at a price that is no longer a    *)
(* target has had its cancel call issued earlier in the same event.         *)
(***************************************************************************)
C21_CancelBeforeInsert ==
    \A e \in BookFeed : \A side \in {BUY, SELL} :
        LET t == e[3]
            r == on_order_book_update_message(Eng, e[1], e[2], t[1], t[2],
                                              t[3], t[4])
            n == Len(r.calls)
        IN  /\ \A i \in 1..n : \A j \in 1..n :
                   (/\ IsQuote(r.calls, i, side)
                    /\ r.calls[j].op = "cancel"
                    /\ \E o \in Resting(side) : o[1] = r.calls[j].id)
                   => j < i
            /\ \A i \in 1..n : \A o \in Resting(side) :
                   (/\ e[1] = ETF
                    /\ IsQuote(r.calls, i, side)
                    /\ o[2] \notin TargetPrices(t, side))
                   => \E j \in 1..(i - 1) : r.calls[j] = CancelCall(o[1])

\* a book update is at hand that replaces a resting order: it cancels the old
\* id and then inserts at another price on the same side
C21_Witness ==
    \E e \in BookFeed : \E side \in {BUY, SELL} : \E o \in Resting(side) :
        LET t == e[3]
            r == on_order_book_update_message(Eng, e[1], e[2], t[1], t[2],
                                              t[3], t[4])
        IN  \E j \in 1..Len(r.calls) : \E i \in 1..Len(r.calls) :
                /\ j < i
                /\ r.calls[j] = CancelCall(o[1])
                /\ IsQuote(r.calls, i, side)
                /\ r.calls[i].price # o[2]



(***************************************************************************)
(* C22.  Either strategy: a book update of the tradable instrument that     *)
(* takes an arbitrage branch inserts exactly one order in that event, the   *)
(* FILL_AND_KILL order, and no GOOD_FOR_DAY order.                          *)
(***************************************************************************)
C22_ArbitrageSuppressesQuotes ==
    \A e \in BookFeed :
        LET t == e[3]
            r == on_order_book_update_message(Eng, e[1], e[2], t[1], t[2],
                                              t[3], t[4])
        IN  (e[1] = ETF /\ Arbitrages(r.calls) # <<>>)
            => /\ Len(Orders(r.calls)) = 1
               /\ Quotes(r.calls, BUY) = <<>>
               /\ Quotes(r.calls, SELL) = <<>>



\* the recorded best bid of instrument `a` exceeds the recorded best ask of
\* instrument `b` by more than one tick; a price not recorded yet exceeds
\* nothing
SpreadOverTick(s, a, b) ==
    /\ HasKey(s.curr_best_bid, a)
    /\ HasKey(s.curr_best_ask, b)
    /\ s.curr_best_bid[a] - s.curr_best_ask[b] > TICK_SIZE_IN_CENTS

\* a touch one tick above LowTouch, and the trade ticks of the feed together
\* with the two that put a recorded spread at exactly one tick
EdgeTouch == <<10200, 3, 10300, 3>>
ThresholdTicks ==
    TickFeed \cup {<<"ETF", 1, EdgeTouch>>, <<"FUTURE", 1, EdgeTouch>>}

(***************************************************************************)
(* C23.  Ladder strategy, one trade-tick event, with                        *)
(* delta = position + position_future at its start and the best prices as  *)
(* recorded once the tick's own prices are: at most one hedge order is      *)
(* sent and nothing else; a hedge buy of -delta at MAX_ASK_NEAREST_TICK is  *)
(* sent iff delta < 0 and best_bid(ETF) - best_ask(FUTURE) > TICK; a hedge  *)
(* sell of delta at MIN_BID_NEAREST_TICK is sent iff delta > 0 and          *)
(* best_bid(FUTURE) - best_ask(ETF) > TICK; a tick that sent a hedge leaves *)
(* position + position_future = 0.  This holds whatever hedge_timer is,     *)
(* that is however many book updates came since the last tick.              *)
(***************************************************************************)
C23_TickHedgesIff ==
    strategy = "ladder" =>
        \A e \in ThresholdTicks :
            LET r == on_trade_ticks_message(Eng, e[1], e[2], e[3][1], e[3][3])
                buy == HedgeCall(order_ids, BUY, MAX_ASK_NEAREST_TICK, -Delta)
                sell == HedgeCall(order_ids, SELL, MIN_BID_NEAREST_TICK, Delta)
            IN  /\ Len(r.calls) <= 1
                /\ r.calls \in {<<>>, <<buy>>, <<sell>>}
                /\ r.calls = <<buy>>
                       <=> (Delta < 0 /\ SpreadOverTick(r.s, ETF, FUTURE))
                /\ r.calls = <<sell>>
                       <=> (Delta > 0 /\ SpreadOverTick(r.s, FUTURE, ETF))
                /\ r.calls # <<>> => r.s.position + r.s.position_future = 0

\* a long imbalance is about to be hedged by a trade tick that comes after a
\* book update
C23_Witness ==
    /\ strategy = "ladder"
    /\ Delta > 0
    /\ hedge_timer > 0
    /\ \E e \in ThresholdTicks :
           on_trade_ticks_message(Eng, e[1], e[2], e[3][1], e[3][3]).calls
               = <<HedgeCall(order_ids, SELL, MIN_BID_NEAREST_TICK, Delta)>>



\* the ids of the GOOD_FOR_DAY orders sent so far
GoodForDayIds ==
    {sent[k].id : k \in {j \in 1..Len(sent) : sent[j].op = "insert"
                                        /\ sent[j].lifespan = GOOD_FOR_DAY}}

(***************************************************************************)
(* C24.  Ladder strategy, every reachable state: the price index and the id *)
(* index agree.  Every GOOD_FOR_DAY id in bids, recorded at price P, has    *)
(* bid_prices[P] = id, and likewise asks and ask_prices; every entry of     *)
(* bid_prices maps to an id in bids and every entry of ask_prices to an id  *)
(* in asks.                                                                 *)
(***************************************************************************)
C24_IndexesAgree ==
    strategy = "ladder" =>
        /\ \A id \in DOMAIN bids \cap GoodForDayIds :
               HasKey(bid_prices, bids[id]) /\ bid_prices[bids[id]] = id
        /\ \A id \in DOMAIN asks \cap GoodForDayIds :
               HasKey(ask_prices, asks[id]) /\ ask_prices[asks[id]] = id
        /\ \A p \in DOMAIN bid_prices : HasKey(bids, bid_prices[p])
        /\ \A p \in DOMAIN ask_prices : HasKey(asks, ask_prices[p])



(***************************************************************************)
(* C25.  Single-pair strategy, every reachable state in which the engine    *)
(* holds both a current bid and a current ask (bid_id and ask_id nonzero):  *)
(* the quotes do not cross and are at least one tick apart,                 *)
(* bid_price + TICK_SIZE_IN_CENTS <= ask_price.                             *)
(***************************************************************************)
C25_QuotesKeepHeadroom ==
    (strategy = "single" /\ bid_id # 0 /\ ask_id # 0)
        => bid_price + TICK_SIZE_IN_CENTS <= ask_price

=============================================================================
